---- MODULE Spec2Model ----
(***************************************************************************)
(* Model of bin/reth/src/commands/import_op.rs: the `import-op` command    *)
(* reads a file of RLP encoded blocks into a buffer and decodes it with    *)
(* the decoders that #[derive(RlpDecodable)] generates for Block, Header,  *)
(* Transaction, TxMeta and TxLegacy.                                       *)
(*                                                                         *)
(* A byte is a number in 0..255, a buffer a sequence of bytes.  A slice    *)
(* `&[u8]` of the buffer is the pair (pos, lim): the bytes buf[pos+1] ..   *)
(* buf[lim].  Advancing the slice raises pos.                              *)
(***************************************************************************)
EXTENDS Integers, Sequences, FiniteSets, TLC

(***************************************************************************)
(* Widths, in bytes, of the field types of the records.                    *)
(***************************************************************************)
B256Bytes == 32
AddressBytes == 20
BloomBytes == 256
U256Bytes == 32
U128Bytes == 16
U64Bytes == 8
U32Bytes == 4

(***************************************************************************)
(* The decode errors (alloy_rlp::Error).  Only ListLengthMismatch carries  *)
(* data; no error carries a byte offset, a field name or a type name.      *)
(***************************************************************************)
NoError == [kind |-> "none"]
E(k) == [kind |-> k]
ListLengthMismatch(expected, got) ==
    [kind |-> "ListLengthMismatch", expected |-> expected, got |-> got]

(***************************************************************************)
(* Big-endian value of a byte string.                                      *)
(***************************************************************************)
RECURSIVE BeValue(_)
BeValue(bytes) ==
    IF bytes = <<>> THEN 0
    ELSE 256 * BeValue(SubSeq(bytes, 1, Len(bytes) - 1)) + bytes[Len(bytes)]

Zeros(n) == [i \in 1..n |-> 0]

(***************************************************************************)
(* static_left_pad::<N>: the N-byte big-endian word of a canonical         *)
(* integer payload.  Integer fields are kept as this word (what            *)
(* from_be_bytes reinterprets), so that 64, 128 and 256 bit values fit.    *)
(***************************************************************************)
StaticLeftPadNoZeroCheck(data, n) ==
    IF Len(data) > n THEN [err |-> E("Overflow"), word |-> <<>>]
    ELSE [err |-> NoError, word |-> Zeros(n - Len(data)) \o data]

StaticLeftPad(data, n) ==
    IF Len(data) > n THEN [err |-> E("Overflow"), word |-> <<>>]
    ELSE IF data = <<>> THEN [err |-> NoError, word |-> Zeros(n)]
    ELSE IF data[1] = 0 THEN [err |-> E("LeadingZero"), word |-> <<>>]
    ELSE [err |-> NoError, word |-> Zeros(n - Len(data)) \o data]

(***************************************************************************)
(* The size check of the long forms: a length below 56 must use the short  *)
(* form.                                                                   *)
(***************************************************************************)
AnySizeIsCanonical(payload_length) == TRUE

CanonicalLongSize(payload_length) == payload_length >= 56

(***************************************************************************)
(* alloy_rlp::Header::decode on the slice (pos, lim) of buf: the kind and  *)
(* payload length of the next item, the slice advanced past the prefix     *)
(* (not advanced for a single byte below 0x80, which is its own payload).  *)
(* A length of four or more length bytes without a leading zero is at      *)
(* least 2^24, more than any buffer here holds, hence InputTooShort.       *)
(***************************************************************************)
HdrErr(k, pos) == [err |-> E(k), list |-> FALSE, payload_length |-> 0, pos |-> pos]

HdrOk(list, n, pos, lim) ==
    IF lim - pos < n THEN HdrErr("InputTooShort", pos)
    ELSE [err |-> NoError, list |-> list, payload_length |-> n, pos |-> pos]

RlpHeaderDecode(buf, pos, lim) ==
    IF pos >= lim THEN HdrErr("InputTooShort", pos)
    ELSE LET b == buf[pos + 1] IN
      IF b < 128 THEN HdrOk(FALSE, 1, pos, lim)
      ELSE IF b < 184 THEN
        LET n == b - 128 IN
          IF n = 1 /\ pos + 1 >= lim THEN HdrErr("InputTooShort", pos + 1)
          ELSE IF n = 1 /\ buf[pos + 2] < 128
            THEN HdrErr("NonCanonicalSingleByte", pos + 1)
          ELSE HdrOk(FALSE, n, pos + 1, lim)
      ELSE IF b < 192 \/ b >= 248 THEN
        LET list == b >= 248
            len_of_len == b - (IF list THEN 247 ELSE 183)
        IN
          IF lim - (pos + 1) < len_of_len THEN HdrErr("InputTooShort", pos + 1)
          ELSE LET len == SubSeq(buf, pos + 2, pos + 1 + len_of_len) IN
            IF len[1] = 0 THEN HdrErr("LeadingZero", pos + 1 + len_of_len)
            ELSE IF len_of_len > 3 THEN HdrErr("InputTooShort", pos + 1 + len_of_len)
            ELSE IF ~CanonicalLongSize(BeValue(len))
              THEN HdrErr("NonCanonicalSize", pos + 1 + len_of_len)
            ELSE HdrOk(list, BeValue(len), pos + 1 + len_of_len, lim)
      ELSE HdrOk(TRUE, b - 192, pos + 1, lim)

(***************************************************************************)
(* The result of decoding one value: ok, the error, the slice position     *)
(* after it, the value, and the log of the items decoded with success      *)
(* while producing it (one entry per item: where it starts, its kind and   *)
(* payload length, the bytes consumed, and for a list the bytes consumed   *)
(* by each of its children).                                               *)
(***************************************************************************)
Fail(err, pos, log) == [ok |-> FALSE, err |-> err, pos |-> pos, val |-> <<>>, log |-> log]
Done(pos, val, log) == [ok |-> TRUE, err |-> NoError, pos |-> pos, val |-> val, log |-> log]
Entry(at, list, payload_length, consumed, kids) ==
    [at |-> at, list |-> list, payload_length |-> payload_length,
     consumed |-> consumed, kids |-> kids]

(***************************************************************************)
(* alloy_rlp::Header::decode_bytes(buf, false): the payload of the next    *)
(* item, which must be a string.                                           *)
(***************************************************************************)
DecodeBytes(buf, pos, lim) ==
    LET h == RlpHeaderDecode(buf, pos, lim) IN
      IF h.err # NoError THEN Fail(h.err, h.pos, <<>>)
      ELSE IF h.list THEN Fail(E("UnexpectedList"), h.pos, <<>>)
      ELSE Done(h.pos + h.payload_length,
                SubSeq(buf, h.pos + 1, h.pos + h.payload_length),
                <<Entry(pos, FALSE, h.payload_length,
                        h.pos + h.payload_length - pos, <<>>)>>)

(***************************************************************************)
(* Decodable for FixedBytes<N> (B256, Address, Bloom, TxHash): the payload *)
(* must have exactly N bytes.                                              *)
(***************************************************************************)
DecodeFixedAnyLength(n, buf, pos, lim) == DecodeBytes(buf, pos, lim)

DecodeFixed(n, buf, pos, lim) ==
    LET r == DecodeBytes(buf, pos, lim) IN
      IF ~r.ok THEN r
      ELSE IF Len(r.val) # n THEN Fail(E("UnexpectedLength"), r.pos, r.log)
      ELSE r

(***************************************************************************)
(* Decodable for u32, u64, u128 and U256.                                  *)
(***************************************************************************)
DecodeUint(n, buf, pos, lim) ==
    LET r == DecodeBytes(buf, pos, lim) IN
      IF ~r.ok THEN r
      ELSE LET p == StaticLeftPad(r.val, n) IN
        IF p.err # NoError THEN Fail(p.err, r.pos, r.log)
        ELSE Done(r.pos, p.word, r.log)

(***************************************************************************)
(* Decodable for TransactionKind: the empty string is Create, anything     *)
(* else is decoded as the Address of a Call.                               *)
(***************************************************************************)
DecodeTransactionKind(buf, pos, lim) ==
    IF pos >= lim THEN Fail(E("InputTooShort"), pos, <<>>)
    ELSE IF buf[pos + 1] = 128
      THEN Done(pos + 1, [kind |-> "Create", to |-> <<>>],
                <<Entry(pos, FALSE, 0, 1, <<>>)>>)
    ELSE LET r == DecodeFixed(AddressBytes, buf, pos, lim) IN
      IF ~r.ok THEN r
      ELSE Done(r.pos, [kind |-> "Call", to |-> r.val], r.log)

(***************************************************************************)
(* The records, as the ordered (field, type) lists the derive reads.       *)
(***************************************************************************)
F(name, kind) == [name |-> name, kind |-> kind]

Block ==
    << F("header", "Header"), F("txs", "Vec<Transaction>"),
       F("uncles", "Vec<Header>") >>

HeaderOf13Fields ==
    << F("parent_hash", "B256"), F("uncle_hash", "B256"),
       F("coinbase", "Address"), F("root", "B256"), F("tx_hash", "B256"),
       F("receipt_hash", "B256"), F("bloom", "Bloom"),
       F("difficulty", "U256"), F("number", "U256"), F("gas_limit", "u64"),
       F("gas_used", "u64"), F("time", "u64"), F("extra_data", "Bytes") >>

Header ==
    << F("parent_hash", "B256"), F("uncle_hash", "B256"),
       F("coinbase", "Address"), F("root", "B256"), F("tx_hash", "B256"),
       F("receipt_hash", "B256"), F("bloom", "Bloom"),
       F("difficulty", "U256"), F("number", "U256"), F("gas_limit", "u64"),
       F("gas_used", "u64"), F("time", "u64"), F("extra_data", "Bytes"),
       F("mix_digest", "B256"), F("nonce", "Bytes") >>

Transaction ==
    << F("data", "TxLegacy"), F("meta", "TxMeta"), F("hash", "B256"),
       F("size", "u32"), F("from", "Address") >>

TxMeta ==
    << F("block_number", "U256"), F("timestamp", "u64"),
       F("message_sender", "Address"), F("rest", "Bytes") >>

TxLegacy ==
    << F("account_nonce", "u64"), F("gas_price", "u128"),
       F("gas_limit", "u64"), F("to", "TransactionKind"), F("value", "U256"),
       F("input", "Bytes"), F("v", "U256"), F("r", "U256"), F("s", "U256") >>

Schema(kind) ==
    CASE kind = "Block" -> Block
      [] kind = "Header" -> Header
      [] kind = "Transaction" -> Transaction
      [] kind = "TxMeta" -> TxMeta
      [] kind = "TxLegacy" -> TxLegacy

FixedWidth(kind) ==
    CASE kind = "B256" -> B256Bytes
      [] kind = "Address" -> AddressBytes
      [] kind = "Bloom" -> BloomBytes

UintWidth(kind) ==
    CASE kind = "U256" -> U256Bytes
      [] kind = "u128" -> U128Bytes
      [] kind = "u64" -> U64Bytes
      [] kind = "u32" -> U32Bytes

ElementOf(kind) ==
    CASE kind = "Vec<Transaction>" -> "Transaction"
      [] kind = "Vec<Header>" -> "Header"

(***************************************************************************)
(* The record value built from the field values, in schema order.          *)
(***************************************************************************)
MakeRecord(schema, vals) ==
    [n \in {schema[i].name : i \in 1..Len(schema)} |->
        vals[CHOOSE i \in 1..Len(schema) : schema[i].name = n]]

(***************************************************************************)
(* The check that ends a derived decode: the fields must have consumed     *)
(* exactly the payload length the list prefix declares.                    *)
(***************************************************************************)
ConsumedAtMost(consumed, payload_length) == consumed <= payload_length

ConsumedMatches(consumed, payload_length) == consumed = payload_length

(***************************************************************************)
(* Decodable::decode for every type of the records.                        *)
(*  - a derived struct reads the list prefix, then decodes its fields one  *)
(*    after the other from the SAME slice (the slice is not cut to the     *)
(*    payload), then compares what they consumed with the payload length;  *)
(*  - Vec<T> cuts a view of the payload and decodes T until it is empty.   *)
(***************************************************************************)
RECURSIVE Decode(_, _, _, _)
RECURSIVE DecodeFields(_, _, _, _, _)
RECURSIVE DecodeElements(_, _, _, _)

DecodeStruct(kind, buf, pos, lim) ==
    LET h == RlpHeaderDecode(buf, pos, lim) IN
      IF h.err # NoError THEN Fail(h.err, h.pos, <<>>)
      ELSE IF ~h.list THEN Fail(E("UnexpectedString"), h.pos, <<>>)
      ELSE IF lim - h.pos < h.payload_length
        THEN Fail(E("InputTooShort"), h.pos, <<>>)
      ELSE LET f == DecodeFields(Schema(kind), 1, buf, h.pos, lim)
               consumed == f.pos - h.pos
           IN
        IF ~f.ok THEN Fail(f.err, f.pos, f.log)
        ELSE IF ~ConsumedMatches(consumed, h.payload_length)
          THEN Fail(ListLengthMismatch(h.payload_length, consumed), f.pos, f.log)
        ELSE Done(f.pos, MakeRecord(Schema(kind), f.val),
                  <<Entry(pos, TRUE, h.payload_length, f.pos - pos, f.kids)>>
                      \o f.log)

DecodeFields(schema, i, buf, pos, lim) ==
    IF i > Len(schema)
      THEN [ok |-> TRUE, err |-> NoError, pos |-> pos, val |-> <<>>,
            log |-> <<>>, kids |-> <<>>]
    ELSE LET r == Decode(schema[i].kind, buf, pos, lim) IN
      IF ~r.ok
        THEN [ok |-> FALSE, err |-> r.err, pos |-> r.pos, val |-> <<>>,
              log |-> r.log, kids |-> <<>>]
      ELSE LET t == DecodeFields(schema, i + 1, buf, r.pos, lim) IN
        [ok |-> t.ok, err |-> t.err, pos |-> t.pos,
         val |-> IF t.ok THEN <<r.val>> \o t.val ELSE <<>>,
         log |-> r.log \o t.log,
         kids |-> <<r.pos - pos>> \o t.kids]

DecodeElements(kind, buf, pos, lim) ==
    IF pos >= lim
      THEN [ok |-> TRUE, err |-> NoError, pos |-> pos, val |-> <<>>,
            log |-> <<>>, kids |-> <<>>]
    ELSE LET r == Decode(kind, buf, pos, lim) IN
      IF ~r.ok
        THEN [ok |-> FALSE, err |-> r.err, pos |-> r.pos, val |-> <<>>,
              log |-> r.log, kids |-> <<>>]
      ELSE LET t == DecodeElements(kind, buf, r.pos, lim) IN
        [ok |-> t.ok, err |-> t.err, pos |-> t.pos,
         val |-> IF t.ok THEN <<r.val>> \o t.val ELSE <<>>,
         log |-> r.log \o t.log,
         kids |-> <<r.pos - pos>> \o t.kids]

DecodeVec(kind, buf, pos, lim) ==
    LET h == RlpHeaderDecode(buf, pos, lim) IN
      IF h.err # NoError THEN Fail(h.err, h.pos, <<>>)
      ELSE IF ~h.list THEN Fail(E("UnexpectedString"), h.pos, <<>>)
      ELSE LET view == h.pos + h.payload_length
               t == DecodeElements(ElementOf(kind), buf, h.pos, view)
           IN
        IF ~t.ok THEN Fail(t.err, t.pos, t.log)
        ELSE Done(view, t.val,
                  <<Entry(pos, TRUE, h.payload_length, view - pos, t.kids)>>
                      \o t.log)

Decode(kind, buf, pos, lim) ==
    CASE kind \in {"B256", "Address", "Bloom"} ->
           DecodeFixed(FixedWidth(kind), buf, pos, lim)
      [] kind \in {"U256", "u128", "u64", "u32"} ->
           DecodeUint(UintWidth(kind), buf, pos, lim)
      [] kind = "Bytes" -> DecodeBytes(buf, pos, lim)
      [] kind = "TransactionKind" -> DecodeTransactionKind(buf, pos, lim)
      [] kind \in {"Vec<Transaction>", "Vec<Header>"} ->
           DecodeVec(kind, buf, pos, lim)
      [] OTHER -> DecodeStruct(kind, buf, pos, lim)

(***************************************************************************)
(* The files the command is run on.  A file is described by the items it   *)
(* was written from: a string (its payload), a list (its children), or     *)
(* raw bytes written as they are (for encodings no canonical writer        *)
(* produces).  EncodeItem is the canonical RLP writer.                     *)
(***************************************************************************)
S(bytes) == [t |-> "str", bytes |-> bytes]
L(kids) == [t |-> "list", kids |-> kids]
Raw(bytes) == [t |-> "raw", bytes |-> bytes]

Rep(n, b) == [i \in 1..n |-> b]

RECURSIVE BeBytes(_)
BeBytes(n) == IF n = 0 THEN <<>> ELSE BeBytes(n \div 256) \o <<n % 256>>

EncodeLength(n, offset) ==
    IF n <= 55 THEN <<offset + n>>
    ELSE <<offset + 55 + Len(BeBytes(n))>> \o BeBytes(n)

RECURSIVE EncodeItem(_)
RECURSIVE EncodeAll(_)
EncodeAll(its) ==
    IF its = <<>> THEN <<>> ELSE EncodeItem(Head(its)) \o EncodeAll(Tail(its))

EncodeItem(it) ==
    CASE it.t = "raw" -> it.bytes
      [] it.t = "str" ->
           IF Len(it.bytes) = 1 /\ it.bytes[1] < 128 THEN it.bytes
           ELSE EncodeLength(Len(it.bytes), 128) \o it.bytes
      [] it.t = "list" ->
           LET payload == EncodeAll(it.kids) IN
             EncodeLength(Len(payload), 192) \o payload

(***************************************************************************)
(* Bounds of the files.                                                    *)
(***************************************************************************)
MaxBlocks == 2
MaxRawLen == 3
MaxCut == 2

(***************************************************************************)
(* A valid header, transaction and block, and the one-place variations of  *)
(* them that the first block of a file is drawn from.                      *)
(***************************************************************************)
HeaderKids(number) ==
    << S(Rep(32, 17)), S(Rep(32, 18)), S(Rep(20, 19)), S(Rep(32, 20)),
       S(Rep(32, 21)), S(Rep(32, 22)), S(Rep(256, 0)), S(<<7>>),
       S(<<number>>), S(<<5>>), S(<<3>>), S(<<1, 0>>), S(<<>>),
       S(Rep(32, 23)), S(Rep(8, 9)) >>

TxLegacyKids ==
    << S(<<1>>), S(<<2, 0>>), S(<<82, 8>>), S(Rep(20, 33)), S(<<>>),
       S(<<171, 205>>), S(<<27>>), S(Rep(32, 1)), S(Rep(3, 2)) >>

TxMetaKids == << S(<<1>>), S(<<1, 0>>), S(Rep(20, 34)), S(<<>>) >>

TxKids(legacy) ==
    << L(legacy), L(TxMetaKids), S(Rep(32, 35)), S(<<120>>), S(Rep(20, 34)) >>

BlockItem(header, txs, uncles) == L(<< L(header), L(txs), L(uncles) >>)

ValidBlock(number) == BlockItem(HeaderKids(number), <<>>, <<>>)

With(kids, i, it) == [kids EXCEPT ![i] = it]

UintPayloads == { <<>>, <<5>>, <<0, 5>>, <<0>>, <<1, 0>> }

HeaderUintFields == { 8, 9, 10, 11, 12 }

HeaderVariations ==
    { <<i, S(p)>> : i \in HeaderUintFields, p \in UintPayloads }
    \cup { <<3, S(Rep(19, 19))>>, <<3, S(Rep(21, 19))>>, <<3, S(<<>>)>>,
           <<1, S(Rep(31, 17))>>, <<7, S(Rep(255, 0))>>,
           <<13, S(Rep(32, 1))>>, <<13, S(Rep(33, 1))>>,
           <<10, S(Rep(8, 255))>>, <<10, S(Rep(9, 1))>>,
           <<8, S(Rep(32, 255))>>, <<8, S(Rep(33, 1))>>,
           <<11, Raw(<<129, 5>>)>>, <<11, Raw(<<184, 1, 5>>)>>,
           <<11, Raw(<<185, 0, 1>>)>>, <<15, Raw(<<184, 55>> \o Rep(55, 1))>>,
           <<12, L(<<>>)>> }

HeaderVariants ==
    { HeaderKids(1) }
    \cup { With(HeaderKids(1), v[1], v[2]) : v \in HeaderVariations }
    \cup { SubSeq(HeaderKids(1), 1, n) : n \in {0, 13, 14} }
    \cup { HeaderKids(1) \o <<S(<<1>>)>> }

TxLegacyVariations ==
    { <<1, S(<<0, 5>>)>>, <<1, S(<<>>)>>, <<2, S(Rep(16, 255))>>,
      <<2, S(Rep(17, 1))>>, <<3, S(<<0>>)>>, <<4, S(Rep(19, 33))>>,
      <<5, S(<<0, 1>>)>>, <<7, S(Rep(33, 1))>> }

TxVariants ==
    { TxKids(TxLegacyKids) }
    \cup { TxKids(With(TxLegacyKids, v[1], v[2])) : v \in TxLegacyVariations }
    \cup { With(TxKids(TxLegacyKids), 4, S(Rep(5, 1))),
           SubSeq(TxKids(TxLegacyKids), 1, 4) }

UncleVariants ==
    { HeaderKids(9), SubSeq(HeaderKids(9), 1, 14),
      With(HeaderKids(9), 13, S(Rep(33, 1))), With(HeaderKids(9), 12, S(<<0, 5>>)) }

FirstItems ==
    { BlockItem(h, <<>>, <<>>) : h \in HeaderVariants }
    \cup { BlockItem(HeaderKids(1), <<L(tx)>>, <<>>) : tx \in TxVariants }
    \cup { BlockItem(HeaderKids(1), <<>>, <<L(u)>>) : u \in UncleVariants }
    \cup { BlockItem(HeaderKids(1), <<>>, <<L(HeaderKids(8)), L(u)>>) :
              u \in UncleVariants }
    \cup { BlockItem(HeaderKids(1), <<L(TxKids(TxLegacyKids))>>, <<L(HeaderKids(9))>>),
           L(<< L(HeaderKids(1)), L(<<>>), L(<<>>), S(<<1>>) >>),
           L(<< L(HeaderKids(1)), L(<<>>) >>),
           L(<< L(HeaderKids(1)), S(<<>>), L(<<>>) >>),
           S(Rep(3, 1)) }

RECURSIVE SeqsUpTo(_, _)
SeqsUpTo(set, n) ==
    IF n = 0 THEN { <<>> }
    ELSE LET shorter == SeqsUpTo(set, n - 1) IN
      shorter \cup { Append(q, x) : q \in shorter, x \in set }

FollowingBlocks == SeqsUpTo({ ValidBlock(2), ValidBlock(3) }, MaxBlocks - 1)

RawBytes == { 0, 5, 127, 128, 129, 184, 185, 192, 193, 248 }

RawFiles == SeqsUpTo(RawBytes, MaxRawLen) \ { <<>> }

Inputs ==
    { [items |-> <<>>, cut |-> 0] }
    \cup { [items |-> <<f>> \o rest, cut |-> 0] :
              f \in FirstItems, rest \in FollowingBlocks }
    \cup { [items |-> <<ValidBlock(1)>> \o rest, cut |-> c] :
              rest \in FollowingBlocks, c \in 1..MaxCut }
    \cup { [items |-> <<Raw(r)>>, cut |-> 0] : r \in RawFiles }

FileOf(in) ==
    LET whole == EncodeAll(in.items) IN SubSeq(whole, 1, Len(whole) - in.cut)

(***************************************************************************)
(* The state of one run of ImportOpCommand::execute.                       *)
(*   fileExists, file : whether self.path can be opened, and its bytes     *)
(*   items, cut       : what the file was written from (see Inputs)        *)
(*   pc               : the statement execute is at                        *)
(*   buffer           : the Vec<u8> the file is read into                  *)
(*   cursor           : how far the slice handed to Block::decode advanced *)
(*   block            : the local `block` (empty before it is bound)       *)
(*   printed          : the blocks shown by dbg!, in order                 *)
(*   result           : what execute returned ("none" while it has not)    *)
(*   panic            : the error `unwrap` panicked with                   *)
(*   log              : the items the decoder consumed (see Entry)         *)
(***************************************************************************)
VARIABLES fileExists, file, items, cut, pc, buffer, cursor, block, printed,
          result, panic, log

vars == << fileExists, file, items, cut, pc, buffer, cursor, block, printed,
           result, panic, log >>

Init ==
    /\ fileExists \in BOOLEAN
    /\ \E in \in Inputs :
         /\ fileExists \/ in = [items |-> <<>>, cut |-> 0]
         /\ items = in.items
         /\ cut = in.cut
         /\ file = FileOf(in)
    /\ pc = "open"
    /\ buffer = <<>>
    /\ cursor = 0
    /\ block = <<>>
    /\ printed = <<>>
    /\ result = "none"
    /\ panic = NoError
    /\ log = <<>>

(* File::open(self.path)? fails: execute returns the io error. *)
OpenFails ==
    /\ pc = "open"
    /\ ~fileExists
    /\ result' = "Err"
    /\ pc' = "returned"
    /\ UNCHANGED << fileExists, file, items, cut, buffer, cursor, block,
                    printed, panic, log >>

(* File::open and read_to_end: the whole file is in the buffer. *)
ReadFile ==
    /\ pc = "open"
    /\ fileExists
    /\ buffer' = file
    /\ pc' = "decode"
    /\ UNCHANGED << fileExists, file, items, cut, cursor, block, printed,
                    result, panic, log >>

(* let block = Block::decode(&mut buffer.as_slice()).unwrap(); *)
DecodeBlock ==
    /\ pc = "decode"
    /\ LET r == Decode("Block", buffer, 0, Len(buffer)) IN
         /\ log' = r.log
         /\ IF r.ok
              THEN /\ block' = <<r.val>>
                   /\ cursor' = r.pos
                   /\ pc' = "dbg"
                   /\ UNCHANGED panic
              ELSE /\ panic' = r.err
                   /\ pc' = "panicked"
                   /\ UNCHANGED << block, cursor >>
    /\ UNCHANGED << fileExists, file, items, cut, buffer, printed, result >>

(* dbg!(block); *)
Dbg ==
    /\ pc = "dbg"
    /\ printed' = printed \o block
    /\ pc' = "return"
    /\ UNCHANGED << fileExists, file, items, cut, buffer, cursor, block,
                    result, panic, log >>

(* Ok(()) *)
ReturnOk ==
    /\ pc = "return"
    /\ result' = "Ok"
    /\ pc' = "returned"
    /\ UNCHANGED << fileExists, file, items, cut, buffer, cursor, block,
                    printed, panic, log >>

Next == OpenFails \/ ReadFile \/ DecodeBlock \/ Dbg \/ ReturnOk

Spec == Init /\ [][Next]_vars

Terminated == pc \in { "returned", "panicked" }

(***************************************************************************)
(* What the claims speak about.                                            *)
(***************************************************************************)
(* The decoding of one item on its own, as a file holding only that item. *)
DecodeAlone(it) ==
    LET f == EncodeItem(it) IN Decode("Block", f, 0, Len(f))

ValidAlone(it) ==
    LET f == EncodeItem(it)
        r == Decode("Block", f, 0, Len(f))
    IN r.ok /\ r.pos = Len(f)

(* The child of an item at a path of child indexes, when there is one. *)
RECURSIVE Present(_, _)
Present(it, path) ==
    \/ path = <<>>
    \/ /\ it.t = "list"
       /\ path[1] <= Len(it.kids)
       /\ Present(it.kids[path[1]], Tail(path))

RECURSIVE ItemAt(_, _)
ItemAt(it, path) ==
    IF path = <<>> THEN it ELSE ItemAt(it.kids[path[1]], Tail(path))

(* The first item of the file is shaped as a block: header, txs, uncles. *)
BlockShaped ==
    /\ fileExists /\ items # <<>> /\ cut = 0
    /\ items[1].t = "list"
    /\ Len(items[1].kids) = 3
    /\ \A i \in 1..3 : items[1].kids[i].t = "list"

MainHeaderKids == Len(items[1].kids[1].kids)

(* The first block is the valid block but for child i of its header. *)
OnlyHeaderChildDiffers(i, it) ==
    /\ fileExists /\ items # <<>> /\ cut = 0
    /\ items[1] = BlockItem(With(HeaderKids(1), i, it), <<>>, <<>>)

Panicked(kind) == pc = "panicked" /\ panic = E(kind) /\ printed = <<>>

(***************************************************************************)
(* C1.  For every K >= 0 and every file that is the concatenation of K     *)
(* block encodings, each valid on its own, the run ends in success having  *)
(* yielded exactly the K blocks in file order, with the cursor at the end  *)
(* of the buffer.                                                          *)
(***************************************************************************)
C1_StreamYieldsEveryBlock ==
    (/\ Terminated /\ fileExists /\ cut = 0
     /\ \A i \in 1..Len(items) : ValidAlone(items[i]))
    => /\ result = "Ok"
       /\ cursor = Len(buffer)
       /\ printed = [i \in 1..Len(items) |-> DecodeAlone(items[i]).val]

(***************************************************************************)
(* C2.  On an empty file the run ends in success with no block yielded:    *)
(* no decode error, no failure state, no abort.                            *)
(***************************************************************************)
C2_EmptyBufferSucceeds ==
    (Terminated /\ fileExists /\ file = <<>>)
    => /\ result = "Ok"
       /\ printed = <<>>
       /\ pc # "panicked"
       /\ panic = NoError

(***************************************************************************)
(* C3.  On a file of K-1 valid blocks followed by a block cut short, the   *)
(* run yields the first K-1 blocks in order and then fails with the        *)
(* buffer-underflow error (InputTooShort), reported with the offset at     *)
(* which the cut block starts.                                             *)
(***************************************************************************)
C3_TruncatedTailFailsAtItsOffset ==
    (Terminated /\ fileExists /\ cut > 0 /\ items # <<>>)
    => LET before == SubSeq(items, 1, Len(items) - 1) IN
         /\ printed = [i \in 1..Len(before) |-> DecodeAlone(before[i]).val]
         /\ pc = "panicked"
         /\ panic.kind = "InputTooShort"
         /\ "offset" \in DOMAIN panic
         /\ panic.offset = Len(EncodeAll(before))

(***************************************************************************)
(* C4.  A decode failure is terminal and is surfaced as an error outcome   *)
(* that carries the failing byte offset; once the run has failed or        *)
(* finished, no block is yielded, none is retracted and the cursor does    *)
(* not move.                                                               *)
(***************************************************************************)
C4_FailureIsTerminalAndCarriesOffset ==
    [][ /\ (pc # "panicked" /\ pc' = "panicked")
           => /\ result' = "Err"
              /\ "offset" \in DOMAIN panic'
              /\ printed' = printed
        /\ Terminated => (printed' = printed /\ cursor' = cursor) ]_vars

UintKinds == { "U256", "u128", "u64", "u32" }

UintSites ==
    { [path |-> <<1, i>>, in |-> "header", field |-> Header[i].name,
       width |-> UintWidth(Header[i].kind)] :
         i \in { j \in 1..Len(Header) : Header[j].kind \in UintKinds } }
    \cup
    { [path |-> <<2, 1, 1, i>>, in |-> "tx", field |-> TxLegacy[i].name,
       width |-> UintWidth(TxLegacy[i].kind)] :
         i \in { j \in 1..Len(TxLegacy) : TxLegacy[j].kind \in UintKinds } }

SitePayload(s) == ItemAt(items[1], s.path).bytes

SiteOk(s) ==
    /\ BlockShaped
    /\ MainHeaderKids = Len(Header)
    /\ Present(items[1], s.path)
    /\ ItemAt(items[1], s.path).t = "str"
    /\ s.in = "tx" => Len(ItemAt(items[1], <<2, 1, 1>>).kids) = Len(TxLegacy)

SiteValue(s) ==
    IF s.in = "header" THEN printed[1].header[s.field]
    ELSE printed[1].txs[1].data[s.field]

NonCanonicalInteger(p, width) == (p # <<>> /\ p[1] = 0) \/ Len(p) > width

C6_CanonicalIntegersOnly ==
    Terminated =>
      /\ \A s \in UintSites :
           SiteOk(s) =>
             /\ NonCanonicalInteger(SitePayload(s), s.width)
                  => (pc = "panicked" /\ printed = <<>>)
             /\ printed # <<>> =>
                  /\ SiteValue(s) =
                       Zeros(s.width - Len(SitePayload(s))) \o SitePayload(s)
                  /\ Len(SitePayload(s)) <= 3 =>
                       BeValue(SiteValue(s)) = BeValue(SitePayload(s))
      /\ \A i \in HeaderUintFields, p \in UintPayloads \cup { Rep(9, 1) } :
           OnlyHeaderChildDiffers(i, S(p)) =>
             IF p # <<>> /\ p[1] = 0 THEN Panicked("LeadingZero")
             ELSE IF Len(p) > UintWidth(Header[i].kind) THEN Panicked("Overflow")
             ELSE /\ result = "Ok"
                  /\ BeValue(printed[1].header[Header[i].name]) = BeValue(p)

C6_LeadingZeroReached ==
    /\ OnlyHeaderChildDiffers(10, S(<<0, 5>>))
    /\ Panicked("LeadingZero")

(***************************************************************************)
(* C7.  No Header with extra_data longer than 32 bytes is yielded: a       *)
(* 33-byte extra_data decodes as a field but the block fails domain        *)
(* validation.                                                             *)
(***************************************************************************)
C7_ExtraDataAtMost32 ==
    /\ \A i \in 1..Len(printed) :
         /\ Len(printed[i].header.extra_data) <= 32
         /\ \A u \in 1..Len(printed[i].uncles) :
              Len(printed[i].uncles[u].extra_data) <= 32
    /\ (Terminated /\ OnlyHeaderChildDiffers(13, S(Rep(33, 1))))
         => (pc = "panicked" /\ panic.kind = "DomainValidation")

(***************************************************************************)
(* C8.  A fixed-width field decodes only from a string of exactly its      *)
(* width.  For every fixed-width field of the header a payload of another  *)
(* length never yields a block, and in every yielded block the field is    *)
(* the payload itself, neither padded nor truncated; the coinbase written  *)
(* with 19 or 21 bytes fails with UnexpectedLength, an error that carries  *)
(* neither the field name nor the expected or the actual length.           *)
(***************************************************************************)
FixedKinds == { "B256", "Address", "Bloom" }

HeaderFixedFields == { j \in 1..Len(Header) : Header[j].kind \in FixedKinds }

HeaderChildOk(i) ==
    /\ BlockShaped
    /\ MainHeaderKids = Len(Header)
    /\ items[1].kids[1].kids[i].t = "str"

PrefixLen(b) ==
    IF b < 128 THEN 0
    ELSE IF b < 184 THEN 1
    ELSE IF b < 192 THEN 1 + (b - 183)
    ELSE IF b < 248 THEN 1
    ELSE 1 + (b - 247)

TableConsumed(buf, at) ==
    LET b == buf[at + 1] IN
      IF b < 128 THEN 1
      ELSE IF b < 184 THEN 1 + (b - 128)
      ELSE IF b < 192
        THEN 1 + (b - 183) + BeValue(SubSeq(buf, at + 2, at + 1 + (b - 183)))
      ELSE IF b < 248 THEN 1 + (b - 192)
      ELSE 1 + (b - 247) + BeValue(SubSeq(buf, at + 2, at + 1 + (b - 247)))

RECURSIVE Sum(_)
Sum(q) == IF q = <<>> THEN 0 ELSE Head(q) + Sum(Tail(q))

C9_ConsumedFollowsPrefixTable ==
    /\ pc # "open" => buffer = file
    /\ pc \in { "dbg", "panicked" } =>
         \A k \in 1..Len(log) :
           LET e == log[k]
               start == e.at + PrefixLen(buffer[e.at + 1])
           IN
             /\ e.consumed = TableConsumed(buffer, e.at)
             /\ e.at + e.consumed <= Len(buffer)
             /\ e.list <=> buffer[e.at + 1] >= 192
             /\ e.list =>
                  /\ Sum(e.kids) = e.payload_length
                  /\ e.consumed = PrefixLen(buffer[e.at + 1]) + e.payload_length
                  /\ \A c \in 1..Len(e.kids) :
                       \E j \in 1..Len(log) :
                         /\ log[j].at = start + Sum(SubSeq(e.kids, 1, c - 1))
                         /\ log[j].consumed = e.kids[c]

C9_EveryFormDecoded ==
    /\ pc = "dbg"
    /\ \A form \in { 0..127, 128..183, 184..191, 192..247, 248..255 } :
         \E k \in 1..Len(log) : buffer[log[k].at + 1] \in form

(***************************************************************************)
(* C10.  Every non-canonical length encoding is rejected, with the errors  *)
(* NonCanonicalSingleByte, LeadingZero and NonCanonicalSize (the           *)
(* non-canonical-length errors): a one-byte string below 0x80 written with *)
(* the prefix 0x81, a long form whose length bytes start with 0x00, a long *)
(* form whose length is at most 55.  No item decoded with success has such *)
(* an encoding.                                                            *)
(***************************************************************************)
IsLongForm(b) == b \in 184..191 \/ b \in 248..255

LengthOfLength(b) == IF b < 192 THEN b - 183 ELSE b - 247

LengthBytes(buf, at) ==
    SubSeq(buf, at + 2, at + 1 + LengthOfLength(buf[at + 1]))

SingleByteAsString(buf, at) ==
    /\ Len(buf) >= at + 2
    /\ buf[at + 1] = 129
    /\ buf[at + 2] < 128

LongFormLeadingZero(buf, at) ==
    /\ IsLongForm(buf[at + 1])
    /\ Len(buf) >= at + 1 + LengthOfLength(buf[at + 1])
    /\ buf[at + 2] = 0

LongFormForShortLength(buf, at) ==
    /\ IsLongForm(buf[at + 1])
    /\ Len(buf) >= at + 1 + LengthOfLength(buf[at + 1])
    /\ buf[at + 2] # 0
    /\ LengthOfLength(buf[at + 1]) <= 3
    /\ BeValue(LengthBytes(buf, at)) <= 55

C10_NonCanonicalLengthRejected ==
    /\ (Terminated /\ fileExists /\ file # <<>>) =>
         /\ SingleByteAsString(file, 0) => Panicked("NonCanonicalSingleByte")
         /\ LongFormLeadingZero(file, 0) => Panicked("LeadingZero")
         /\ LongFormForShortLength(file, 0) => Panicked("NonCanonicalSize")
    /\ Terminated =>
         /\ OnlyHeaderChildDiffers(11, Raw(<<129, 5>>))
              => Panicked("NonCanonicalSingleByte")
         /\ OnlyHeaderChildDiffers(11, Raw(<<185, 0, 1>>))
              => Panicked("LeadingZero")
         /\ OnlyHeaderChildDiffers(11, Raw(<<184, 1, 5>>))
              => Panicked("NonCanonicalSize")
         /\ OnlyHeaderChildDiffers(15, Raw(<<184, 55>> \o Rep(55, 1)))
              => Panicked("NonCanonicalSize")
    /\ pc \in { "dbg", "panicked" } =>
         \A k \in 1..Len(log) :
           /\ ~SingleByteAsString(buffer, log[k].at)
           /\ ~LongFormLeadingZero(buffer, log[k].at)
           /\ ~LongFormForShortLength(buffer, log[k].at)

C10_NonCanonicalSizeReached ==
    /\ fileExists /\ Len(file) = 2 /\ file[1] = 248 /\ file[2] = 5
    /\ Panicked("NonCanonicalSize")
====
